---- MODULE Spec2Model ----
(***************************************************************************)
(* The in-memory shop simulation of the TypeScript class exercises:        *)
(* Item / ItemTienda / Tienda (Clase-11-Node.js/README.md) together with   *)
(* the Tienda methods eliminarPorId, modificarStockItem and vender         *)
(* (Clase-5-Typescript/src/item.ts), and ItemProveedor / Proveedor.        *)
(*                                                                         *)
(* Objects held in an array are referred to by their position in it: a     *)
(* reference to an ItemTienda of tienda.items is its index, and null is 0. *)
(* JavaScript numbers are integers plus the value NaN; reading a property  *)
(* that an object does not have yields undefined.                          *)
(***************************************************************************)
EXTENDS Integers, Sequences, FiniteSets, TLC

VARIABLES
    items,                      \* Tienda.items: sequence of ItemTienda
    cantidad_dinero_en_cuenta,  \* Tienda.cantidad_dinero_en_cuenta
    prov_items,                 \* Proveedor.items: sequence of ItemProveedor
    llamada,                    \* the last call: method, arguments, return value, console output
    antes,                      \* items and balances as they were when the last call started
    memoria,                    \* the objects behind the items: heap and the references the lists hold
    fila,                       \* a row of the dashboard query: its KPI columns and computed columns
    peticion,                   \* an HTTP request to a /ping route: the draw and what the middleware did
    tablas,                     \* the tables empleados and historial_salarios
    arranque,                   \* the start of the Mongo demo: promises, calls, console
    persona                     \* a Persona: its vida

vars == <<items, cantidad_dinero_en_cuenta, prov_items, llamada, antes, memoria, fila, peticion,
          tablas, arranque, persona>>

\* What the calls on a Tienda or a Proveedor given as lists of values leave alone.
\* The variables of the SQL tables, the Mongo demo and the Persona.
otros == <<tablas, arranque, persona>>

OtrosInicial ==
    /\ tablas = [empleados |-> <<>>, historial_salarios |-> <<>>]
    /\ arranque = [fase |-> "sin iniciar"]
    /\ persona = [vida |-> 100]

resto == <<memoria, fila, peticion, otros>>

RestoInicial ==
    /\ memoria = [heap |-> <<>>, tienda |-> <<>>, proveedor |-> <<>>]
    /\ fila = [paso |-> "sin calcular"]
    /\ peticion = [ruta |-> "ninguna"]
    /\ OtrosInicial

----------------------------------------------------------------------------
(* Bounds of the model *)

MaxItems == 2       \* comprar / registrarItem are explored while fewer items are held
MaxCantidad == 2    \* quantities passed to the methods range over MinCantidad..MaxCantidad
MaxStock == 2       \* stock-raising calls are explored while the stock stays at most this
MaxDinero == 35     \* balance-raising calls are explored while the balance stays at most this
MaxLista == 3       \* the lookups and the Proveedor are explored on lists of at most this length

MinCantidad == 0 - 1

Cantidades == MinCantidad..MaxCantidad

Ids == {1, 2}

Margenes == {20}

----------------------------------------------------------------------------
(* JavaScript values *)

null == 0

\* NaN and undefined stand outside the range of every number the model reaches.
NaN == 0 - 999999

undefined == 0 - 999998

ToNumber(v) == IF v = undefined THEN NaN ELSE v

JsMul(a, b) ==
    IF ToNumber(a) = NaN \/ ToNumber(b) = NaN THEN NaN ELSE ToNumber(a) * ToNumber(b)

JsAdd(a, b) ==
    IF ToNumber(a) = NaN \/ ToNumber(b) = NaN THEN NaN ELSE ToNumber(a) + ToNumber(b)

JsSub(a, b) ==
    IF ToNumber(a) = NaN \/ ToNumber(b) = NaN THEN NaN ELSE ToNumber(a) - ToNumber(b)

\* a > b: false as soon as one side is NaN
JsGt(a, b) ==
    ToNumber(a) # NaN /\ ToNumber(b) # NaN /\ ToNumber(a) > ToNumber(b)

\* a <= b: false as soon as one side is NaN
JsLe(a, b) ==
    ToNumber(a) # NaN /\ ToNumber(b) # NaN /\ ToNumber(a) <= ToNumber(b)

\* obj.prop
Get(obj, prop) == IF prop \in DOMAIN obj THEN obj[prop] ELSE undefined

----------------------------------------------------------------------------
(* Item, ItemTienda *)

Item(nombre, precio, id, descripcion) ==
    [nombre |-> nombre, precio |-> precio, id |-> id, descripcion |-> descripcion]

ItemTienda(nombre, precio, id, descripcion, stock, margen_ganacia) ==
    [nombre |-> nombre, precio |-> precio, id |-> id, descripcion |-> descripcion,
     stock |-> stock, margen_ganacia |-> margen_ganacia]

setStock(it, nuevo_stock) == [it EXCEPT !.stock = nuevo_stock]

\* const item = new ItemTienda('Agua', 10, 1, 'Bebible', 10, 10): the module-level
\* constant that the body of comprar names.
item == ItemTienda("Agua", 10, 1, "Bebible", 10, 10)

\* The catalog items handed to comprar.
Catalogo ==
    { Item("Agua", 10, 1, "Bebible"),
      Item("coca", 15, 2, "soda") }

----------------------------------------------------------------------------
(* Tienda *)

\* Array.prototype.find / findIndex from position i on: the position of the first
\* element whose id is the one looked for, null when there is none.
RECURSIVE find(_, _, _)
find(its, id, i) ==
    IF i > Len(its) THEN null
    ELSE IF its[i].id = id THEN i
    ELSE find(its, id, i + 1)

\* buscarItemPorId keeping the last element that matches instead of the first.
buscarItemPorId_ultimo(its, id) ==
    LET S == {i \in 1..Len(its) : its[i].id = id}
    IN  IF S = {} THEN null ELSE CHOOSE i \in S : \A j \in S : j <= i

\* Tienda.buscarItemPorId(id): a reference to the item found, or null.
buscarItemPorId(its, id) ==
    LET item_encontrado == find(its, id, 1)
    IN  IF item_encontrado # null THEN item_encontrado ELSE null

\* Tienda.agregarItem(nuevo_item, cantidad, margen_ganancia): the new items.
agregarItem(its, nuevo_item, cantidad, margen_ganancia) ==
    LET itemEnTienda == ItemTienda(nuevo_item.nombre, nuevo_item.precio, nuevo_item.id,
                                   nuevo_item.descripcion, cantidad, margen_ganancia)
    IN  Append(its, itemEnTienda)

\* comprar putting the new item at the start of items (unshift) instead of the end.
comprar_al_principio(its, dinero, nuevo_item, cantidad, margen_ganancia) ==
    LET gastoDeCompra == JsMul(cantidad, nuevo_item.precio)
    IN  IF JsGt(gastoDeCompra, dinero)
        THEN [items |-> its, dinero |-> dinero,
              consola |-> <<"la compra no se puede realizar">>]
        ELSE [items |-> <<ItemTienda(item.nombre, item.precio, item.id, item.descripcion,
                                     cantidad, margen_ganancia)>> \o its,
              dinero |-> JsSub(dinero, gastoDeCompra),
              consola |-> <<>>]

\* comprar without the return that cuts the rejected purchase short.
comprar_sin_return(its, dinero, nuevo_item, cantidad, margen_ganancia) ==
    LET gastoDeCompra == JsMul(cantidad, nuevo_item.precio)
    IN  [items |-> agregarItem(its, item, cantidad, margen_ganancia),
         dinero |-> JsSub(dinero, gastoDeCompra),
         consola |-> IF JsGt(gastoDeCompra, dinero)
                     THEN <<"la compra no se puede realizar">> ELSE <<>>]

\* Tienda.comprar(nuevo_item, cantidad, margen_ganancia) on a store holding `its`
\* with balance `dinero`: the items and balance it leaves and what it alerts.
comprar(its, dinero, nuevo_item, cantidad, margen_ganancia) ==
    LET gastoDeCompra == JsMul(cantidad, nuevo_item.precio)
    IN  IF JsGt(gastoDeCompra, dinero)
        THEN [items |-> its, dinero |-> dinero,
              consola |-> <<"la compra no se puede realizar">>]
        ELSE [items |-> agregarItem(its, item, cantidad, margen_ganancia),
              dinero |-> JsSub(dinero, gastoDeCompra),
              consola |-> <<>>]

\* Array.prototype.splice(index, 1)
splice(its, index) ==
    [j \in 1..(Len(its) - 1) |-> IF j < index THEN its[j] ELSE its[j + 1]]

\* eliminarPorId taking out every item that has the id (a filter) instead of the first.
eliminarPorId_todos(its, item_id) ==
    LET index == find(its, item_id, 1)
        quedan == {j \in 1..Len(its) : its[j].id # item_id}
        \* the k-th position that stays
        RECURSIVE pos(_, _)
        pos(k, desde) == IF desde \in quedan
                         THEN (IF k = 1 THEN desde ELSE pos(k - 1, desde + 1))
                         ELSE pos(k, desde + 1)
    IN  IF index # null
        THEN [ret |-> TRUE,
              items |-> [k \in 1..Cardinality(quedan) |-> its[pos(k, 1)]]]
        ELSE [ret |-> FALSE, items |-> its]

\* Tienda.eliminarPorId(item_id)
eliminarPorId(its, item_id) ==
    LET index == find(its, item_id, 1)
    IN  IF index # null
        THEN [ret |-> TRUE, items |-> splice(its, index)]
        ELSE [ret |-> FALSE, items |-> its]

\* modificarStockItem decrementing without comparing cantidad with the stock.
modificarStockItem_sin_control(its, it, cantidad) ==
    [ret |-> TRUE,
     items |-> [its EXCEPT ![it] = setStock(@, @.stock - cantidad)],
     consola |-> <<>>]

\* modificarStockItem comparing with < instead of <=.
modificarStockItem_menor_estricto(its, it, cantidad) ==
    IF cantidad < its[it].stock
    THEN [ret |-> TRUE,
          items |-> [its EXCEPT ![it] = setStock(@, @.stock - cantidad)],
          consola |-> <<>>]
    ELSE [ret |-> FALSE, items |-> its,
          consola |-> <<"no se puede decrementar la cantidad">>]

\* modificarStockItem emptying the stock when cantidad exceeds it.
modificarStockItem_deja_cero(its, it, cantidad) ==
    IF cantidad <= its[it].stock
    THEN [ret |-> TRUE,
          items |-> [its EXCEPT ![it] = setStock(@, @.stock - cantidad)],
          consola |-> <<>>]
    ELSE [ret |-> FALSE,
          items |-> [its EXCEPT ![it] = setStock(@, 0)],
          consola |-> <<"no se puede decrementar la cantidad">>]

\* Tienda.modificarStockItem(item, cantidad) of item.ts, `it` being a reference to
\* an item of `its`.
modificarStockItem(its, it, cantidad) ==
    IF cantidad <= its[it].stock
    THEN [ret |-> TRUE,
          items |-> [its EXCEPT ![it] = setStock(@, @.stock - cantidad)],
          consola |-> <<>>]
    ELSE [ret |-> FALSE, items |-> its,
          consola |-> <<"no se puede decrementar la cantidad">>]

\* The modificarStockItem of the Tienda class comparing with > instead of >=.
Tienda_modificarStockItem_mayor_estricto(its, it, cantidad) ==
    IF it # null /\ its[it].stock > cantidad
    THEN [ret |-> TRUE, items |-> [its EXCEPT ![it] = setStock(@, @.stock - cantidad)]]
    ELSE [ret |-> FALSE, items |-> its]

\* The modificarStockItem written in the Tienda class:
\* if (item && item.stock >= cantidad) { item.setStock(item.stock - cantidad); return true }
\* return false
Tienda_modificarStockItem(its, it, cantidad) ==
    IF it # null /\ its[it].stock >= cantidad
    THEN [ret |-> TRUE, items |-> [its EXCEPT ![it] = setStock(@, @.stock - cantidad)]]
    ELSE [ret |-> FALSE, items |-> its]

\* vender looking for the first item with the id that holds enough stock.
vender_con_stock(its, dinero, id_item_a_vender, cantidad_vendida) ==
    LET S == {i \in 1..Len(its) : its[i].id = id_item_a_vender
                                   /\ its[i].stock >= cantidad_vendida}
        encontrado == buscarItemPorId(its, id_item_a_vender)
        it == IF S # {} THEN CHOOSE i \in S : \A j \in S : i <= j ELSE encontrado
    IN  IF it = null
        THEN [items |-> its, dinero |-> dinero,
              consola |-> <<"Producto no encontrado">>,
              traza |-> <<"buscarItemPorId">>, venta |-> FALSE, acredita |-> FALSE]
        ELSE LET venta == modificarStockItem(its, it, cantidad_vendida)
             IN  IF venta.ret
                 THEN [items |-> venta.items,
                       dinero |-> JsAdd(dinero,
                                    JsMul(JsMul(Get(venta.items[it], "precio"),
                                                Get(venta.items[it], "margen_ganancia")),
                                          cantidad_vendida)),
                       consola |-> venta.consola,
                       traza |-> <<"buscarItemPorId", "modificarStockItem">>,
                       venta |-> TRUE, acredita |-> TRUE]
                 ELSE [items |-> venta.items, dinero |-> dinero,
                       consola |-> venta.consola \o <<"No hay stock suficiente">>,
                       traza |-> <<"buscarItemPorId", "modificarStockItem">>,
                       venta |-> FALSE, acredita |-> FALSE]

\* vender crediting the balance before looking at what modificarStockItem returned.
vender_acredita_antes(its, dinero, id_item_a_vender, cantidad_vendida) ==
    LET it == buscarItemPorId(its, id_item_a_vender)
    IN  IF it = null
        THEN [items |-> its, dinero |-> dinero,
              consola |-> <<"Producto no encontrado">>,
              traza |-> <<"buscarItemPorId">>, venta |-> FALSE, acredita |-> FALSE]
        ELSE LET venta == modificarStockItem(its, it, cantidad_vendida)
             IN  [items |-> venta.items,
                  dinero |-> JsAdd(dinero,
                               JsMul(JsMul(Get(venta.items[it], "precio"),
                                           Get(venta.items[it], "margen_ganancia")),
                                     cantidad_vendida)),
                  consola |-> IF venta.ret THEN venta.consola
                              ELSE venta.consola \o <<"No hay stock suficiente">>,
                  traza |-> <<"buscarItemPorId", "modificarStockItem">>,
                  venta |-> venta.ret, acredita |-> TRUE]

\* vender selling from the first item held when no item has the id asked for.
vender_primer_item(its, dinero, id_item_a_vender, cantidad_vendida) ==
    LET encontrado == buscarItemPorId(its, id_item_a_vender)
        it == IF encontrado = null /\ Len(its) > 0 THEN 1 ELSE encontrado
    IN  IF it = null
        THEN [items |-> its, dinero |-> dinero,
              consola |-> <<"Producto no encontrado">>,
              traza |-> <<"buscarItemPorId">>, venta |-> FALSE, acredita |-> FALSE]
        ELSE LET venta == modificarStockItem(its, it, cantidad_vendida)
             IN  IF venta.ret
                 THEN [items |-> venta.items,
                       dinero |-> JsAdd(dinero,
                                    JsMul(JsMul(Get(venta.items[it], "precio"),
                                                Get(venta.items[it], "margen_ganancia")),
                                          cantidad_vendida)),
                       consola |-> venta.consola,
                       traza |-> <<"buscarItemPorId", "modificarStockItem">>,
                       venta |-> TRUE, acredita |-> TRUE]
                 ELSE [items |-> venta.items, dinero |-> dinero,
                       consola |-> venta.consola \o <<"No hay stock suficiente">>,
                       traza |-> <<"buscarItemPorId", "modificarStockItem">>,
                       venta |-> FALSE, acredita |-> FALSE]

\* Tienda.vender(id_item_a_vender, cantidad_vendida): the items and balance it leaves,
\* what it logs, the methods it calls, what modificarStockItem returned (venta) and
\* whether the statement crediting the balance ran (acredita).
vender(its, dinero, id_item_a_vender, cantidad_vendida) ==
    LET it == buscarItemPorId(its, id_item_a_vender)
    IN  IF it = null
        THEN [items |-> its, dinero |-> dinero,
              consola |-> <<"Producto no encontrado">>,
              traza |-> <<"buscarItemPorId">>, venta |-> FALSE, acredita |-> FALSE]
        ELSE LET venta == modificarStockItem(its, it, cantidad_vendida)
             IN  IF venta.ret
                 THEN [items |-> venta.items,
                       dinero |-> JsAdd(dinero,
                                    JsMul(JsMul(Get(venta.items[it], "precio"),
                                                Get(venta.items[it], "margen_ganancia")),
                                          cantidad_vendida)),
                       consola |-> venta.consola,
                       traza |-> <<"buscarItemPorId", "modificarStockItem">>,
                       venta |-> TRUE, acredita |-> TRUE]
                 ELSE [items |-> venta.items, dinero |-> dinero,
                       consola |-> venta.consola \o <<"No hay stock suficiente">>,
                       traza |-> <<"buscarItemPorId", "modificarStockItem">>,
                       venta |-> FALSE, acredita |-> FALSE]

----------------------------------------------------------------------------
(* The calls of a program on one Tienda *)

\* new Tienda(nombre, id, cantidad_dinero_en_cuenta), followed or not by
\* tienda.items.push(new ItemTienda(...)) as in the script after the class.
DineroInicial == {20}

ItemsIniciales ==
    { <<>>,
      <<ItemTienda("coca", 15, 2, "soda", 0, 20)>>,
      <<ItemTienda("Agua", 10, 1, "Bebible", 2, 10), ItemTienda("coca", 15, 2, "soda", 1, 20)>> }

Estado == [items |-> items, dinero |-> cantidad_dinero_en_cuenta, prov_items |-> prov_items]

\* The model follows a call only while stocks and balance stay within its bounds.
DentroDeCotas(its, dinero) ==
    /\ \A i \in 1..Len(its) : its[i].stock <= MaxStock
    /\ dinero = NaN \/ dinero <= MaxDinero

InitTienda ==
    /\ items \in ItemsIniciales
    /\ cantidad_dinero_en_cuenta \in DineroInicial
    /\ llamada = [op |-> "new"]
    /\ antes = [items |-> items, dinero |-> cantidad_dinero_en_cuenta, prov_items |-> <<>>]

Comprar(nuevo_item, cantidad, margen_ganancia) ==
    LET r == comprar(items, cantidad_dinero_en_cuenta, nuevo_item, cantidad, margen_ganancia)
    IN  /\ Len(items) < MaxItems
        /\ DentroDeCotas(r.items, r.dinero)
        /\ items' = r.items
        /\ cantidad_dinero_en_cuenta' = r.dinero
        /\ llamada' = [op |-> "comprar", nuevo_item |-> nuevo_item, cantidad |-> cantidad,
                       margen_ganancia |-> margen_ganancia, consola |-> r.consola]
        /\ antes' = Estado
        /\ UNCHANGED <<prov_items, resto>>

EliminarPorId(item_id) ==
    LET r == eliminarPorId(items, item_id)
    IN  /\ items' = r.items
        /\ llamada' = [op |-> "eliminarPorId", id |-> item_id, ret |-> r.ret]
        /\ antes' = Estado
        /\ UNCHANGED <<cantidad_dinero_en_cuenta, prov_items, resto>>

ModificarStockItem(it, cantidad) ==
    LET r == modificarStockItem(items, it, cantidad)
    IN  /\ DentroDeCotas(r.items, cantidad_dinero_en_cuenta)
        /\ items' = r.items
        /\ llamada' = [op |-> "modificarStockItem", item |-> it, cantidad |-> cantidad,
                       ret |-> r.ret, consola |-> r.consola]
        /\ antes' = Estado
        /\ UNCHANGED <<cantidad_dinero_en_cuenta, prov_items, resto>>

Vender(id_item_a_vender, cantidad_vendida) ==
    LET r == vender(items, cantidad_dinero_en_cuenta, id_item_a_vender, cantidad_vendida)
    IN  /\ DentroDeCotas(r.items, r.dinero)
        /\ items' = r.items
        /\ cantidad_dinero_en_cuenta' = r.dinero
        /\ llamada' = [op |-> "vender", id |-> id_item_a_vender, cantidad |-> cantidad_vendida,
                       consola |-> r.consola, traza |-> r.traza, venta |-> r.venta,
                       acredita |-> r.acredita]
        /\ antes' = Estado
        /\ UNCHANGED <<prov_items, resto>>

\* A lookup that takes the item found out of the list.
BuscarItemPorId_quita(id) ==
    /\ llamada' = [op |-> "buscarItemPorId", id |-> id, ret |-> buscarItemPorId(items, id)]
    /\ antes' = Estado
    /\ items' = eliminarPorId(items, id).items
    /\ UNCHANGED <<cantidad_dinero_en_cuenta, prov_items, resto>>

BuscarItemPorId(id) ==
    /\ llamada' = [op |-> "buscarItemPorId", id |-> id, ret |-> buscarItemPorId(items, id)]
    /\ antes' = Estado
    /\ UNCHANGED <<items, cantidad_dinero_en_cuenta, prov_items, resto>>

NextTienda ==
    \/ \E nuevo_item \in Catalogo, cantidad \in Cantidades, margen_ganancia \in Margenes :
          Comprar(nuevo_item, cantidad, margen_ganancia)
    \/ \E item_id \in Ids : EliminarPorId(item_id)
    \/ \E it \in 1..Len(items), cantidad \in Cantidades : ModificarStockItem(it, cantidad)
    \/ \E id \in Ids, cantidad \in Cantidades : Vender(id, cantidad)
    \/ \E id \in Ids : BuscarItemPorId(id)

Init == InitTienda /\ prov_items = <<>> /\ RestoInicial

Next == NextTienda

Spec == Init /\ [][Next]_vars

----------------------------------------------------------------------------
(* Proveedor *)

ItemProveedor(nombre, precio, id, descripcion, id_proveedor) ==
    [nombre |-> nombre, precio |-> precio, id |-> id, descripcion |-> descripcion,
     id_proveedor |-> id_proveedor]

\* Proveedor.buscarItemPorId(item_id): a reference to the item found, or null.
prov_buscarItemPorId(its, item_id) ==
    LET encontrado == find(its, item_id, 1)
    IN  IF encontrado # null THEN encontrado ELSE null

ProvBuscarItemPorId(item_id) ==
    /\ llamada' = [op |-> "Proveedor.buscarItemPorId", id |-> item_id,
                   ret |-> prov_buscarItemPorId(prov_items, item_id)]
    /\ antes' = Estado
    /\ UNCHANGED <<items, cantidad_dinero_en_cuenta, prov_items, resto>>

\* registrarItem building the item with id_proveedor in the place of id.
registrarItem_id_cambiado(its, nombre, precio, id, descripcion, id_proveedor) ==
    Append(its, ItemProveedor(nombre, precio, id_proveedor, descripcion, id))

\* registrarItem leaving the list alone when the id is already registered.
registrarItem_sin_repetidos(its, nombre, precio, id, descripcion, id_proveedor) ==
    IF find(its, id, 1) # null THEN its
    ELSE Append(its, ItemProveedor(nombre, precio, id, descripcion, id_proveedor))

\* Proveedor.registrarItem(nombre, precio, id, descripcion, id_proveedor): the new items.
registrarItem(its, nombre, precio, id, descripcion, id_proveedor) ==
    LET nuevoItem == ItemProveedor(nombre, precio, id, descripcion, id_proveedor)
    IN  Append(its, nuevoItem)

\* typeof v === 'number'
EsNumero(v) == v # undefined

\* What comprar returns: null, or the record of the operation.
ret_null == [es_null |-> TRUE]

\* comprar returning the unit price as precio_final.
prov_comprar_precio_unitario(its, id_producto, cantidad) ==
    LET it == prov_buscarItemPorId(its, id_producto)
    IN  IF it = null
        THEN [ret |-> ret_null, items |-> its, consola |-> <<"Producto no encontrado">>]
        ELSE IF EsNumero(Get(its[it], "stock")) /\ JsGt(cantidad, Get(its[it], "stock"))
        THEN [ret |-> ret_null, items |-> its, consola |-> <<"Stock insuficiente">>]
        ELSE [ret |-> [es_null |-> FALSE, precio_final |-> its[it].precio,
                       item_comprado |-> it, cantidad |-> cantidad],
              items |-> IF EsNumero(Get(its[it], "stock"))
                        THEN [its EXCEPT ![it].stock = JsSub(@, cantidad)]
                        ELSE its,
              consola |-> <<>>]

\* comprar taking an item without a stock field for an item with stock 0, and
\* writing the stock it leaves.
prov_comprar_stock_cero(its, id_producto, cantidad) ==
    LET it == prov_buscarItemPorId(its, id_producto)
        stock == IF it # null /\ EsNumero(Get(its[it], "stock")) THEN its[it].stock ELSE 0
    IN  IF it = null
        THEN [ret |-> ret_null, items |-> its, consola |-> <<"Producto no encontrado">>]
        ELSE IF JsGt(cantidad, stock)
        THEN [ret |-> ret_null, items |-> its, consola |-> <<"Stock insuficiente">>]
        ELSE [ret |-> [es_null |-> FALSE, precio_final |-> JsMul(its[it].precio, cantidad),
                       item_comprado |-> it, cantidad |-> cantidad],
              items |-> [its EXCEPT ![it] =
                           [k \in DOMAIN @ \cup {"stock"} |->
                              IF k = "stock" THEN JsSub(stock, cantidad) ELSE @[k]]],
              consola |-> <<>>]

\* comprar taking the quantity out of the stock before comparing them.
prov_comprar_descuenta_antes(its, id_producto, cantidad) ==
    LET it == prov_buscarItemPorId(its, id_producto)
        descontado == IF it # null /\ EsNumero(Get(its[it], "stock"))
                      THEN [its EXCEPT ![it].stock = JsSub(@, cantidad)]
                      ELSE its
    IN  IF it = null
        THEN [ret |-> ret_null, items |-> its, consola |-> <<"Producto no encontrado">>]
        ELSE IF EsNumero(Get(its[it], "stock")) /\ JsGt(cantidad, Get(its[it], "stock"))
        THEN [ret |-> ret_null, items |-> descontado, consola |-> <<"Stock insuficiente">>]
        ELSE [ret |-> [es_null |-> FALSE, precio_final |-> JsMul(its[it].precio, cantidad),
                       item_comprado |-> it, cantidad |-> cantidad],
              items |-> descontado,
              consola |-> <<>>]

\* Proveedor.comprar(id_producto, cantidad): what it returns, the items it leaves
\* and what it logs. (item as any).stock < cantidad is cantidad > stock.
prov_comprar(its, id_producto, cantidad) ==
    LET it == prov_buscarItemPorId(its, id_producto)
    IN  IF it = null
        THEN [ret |-> ret_null, items |-> its, consola |-> <<"Producto no encontrado">>]
        ELSE IF EsNumero(Get(its[it], "stock")) /\ JsGt(cantidad, Get(its[it], "stock"))
        THEN [ret |-> ret_null, items |-> its, consola |-> <<"Stock insuficiente">>]
        ELSE [ret |-> [es_null |-> FALSE, precio_final |-> JsMul(its[it].precio, cantidad),
                       item_comprado |-> it, cantidad |-> cantidad],
              items |-> IF EsNumero(Get(its[it], "stock"))
                        THEN [its EXCEPT ![it].stock = JsSub(@, cantidad)]
                        ELSE its,
              consola |-> <<>>]

----------------------------------------------------------------------------
(* The calls of a program on one Proveedor *)

\* The arguments handed to registrarItem.
ArgsRegistrar ==
    { [nombre |-> "Agua", precio |-> 10, id |-> 1, descripcion |-> "Bebible", id_proveedor |-> 1],
      [nombre |-> "Agua con gas", precio |-> 12, id |-> 1, descripcion |-> "Bebible",
       id_proveedor |-> 1],
      [nombre |-> "coca", precio |-> 15, id |-> 2, descripcion |-> "soda", id_proveedor |-> 1] }

\* new Proveedor(nombre, direccion, fecha_creacion, id, items): items defaults to [],
\* and may hold objects that carry a numeric stock besides the ItemProveedor fields.
ProvItemsIniciales ==
    { <<>>,
      <<[nombre |-> "papa fritas", precio |-> 3000, id |-> 3, descripcion |-> "Papas fritas...",
         id_proveedor |-> 1, stock |-> 1]>> }

InitProveedor ==
    /\ prov_items \in ProvItemsIniciales
    /\ items = <<>>
    /\ cantidad_dinero_en_cuenta = 0
    /\ llamada = [op |-> "new"]
    /\ antes = Estado
    /\ RestoInicial

RegistrarItem(a) ==
    /\ Len(prov_items) < MaxLista
    /\ prov_items' = registrarItem(prov_items, a.nombre, a.precio, a.id, a.descripcion,
                                   a.id_proveedor)
    /\ llamada' = [op |-> "Proveedor.registrarItem", args |-> a]
    /\ antes' = Estado
    /\ UNCHANGED <<items, cantidad_dinero_en_cuenta, resto>>

ProvComprar(id_producto, cantidad) ==
    LET r == prov_comprar(prov_items, id_producto, cantidad)
    IN  /\ \A i \in 1..Len(r.items) :
              EsNumero(Get(r.items[i], "stock")) => r.items[i].stock <= MaxStock
        /\ prov_items' = r.items
        /\ llamada' = [op |-> "Proveedor.comprar", id |-> id_producto, cantidad |-> cantidad,
                       ret |-> r.ret, consola |-> r.consola]
        /\ antes' = Estado
        /\ UNCHANGED <<items, cantidad_dinero_en_cuenta, resto>>

NextProveedor ==
    \/ \E a \in ArgsRegistrar : RegistrarItem(a)
    \/ \E id_producto \in Ids \cup {3}, cantidad \in Cantidades : ProvComprar(id_producto, cantidad)
    \/ \E item_id \in Ids \cup {3} : ProvBuscarItemPorId(item_id)

SpecProveedor == InitProveedor /\ [][NextProveedor]_vars

----------------------------------------------------------------------------
(* The same Tienda with its objects: memoria.heap maps each reference to the   *)
(* object it names, memoria.tienda and memoria.proveedor are the references    *)
(* that tienda.items and proveedor.items hold. items and prov_items are the    *)
(* lists of the objects those references name.                                 *)

deref(heap, refs) == [i \in 1..Len(refs) |-> heap[refs[i]]]

\* The objects that exist before the store buys: a catalog Item that no list
\* holds (1), and an ItemProveedor registered by a Proveedor (2).
HeapInicial ==
    (1 :> Item("Agua", 10, 1, "Bebible"))
    @@ (2 :> ItemProveedor("coca", 15, 2, "soda", 1))

\* The objects that can be handed to comprar as nuevo_item.
RefsCatalogo == {1, 2}

\* new: the first reference that names no object.
nueva_ref(heap) == CHOOSE r \in 1..(Cardinality(DOMAIN heap) + 1) :
                      r \notin DOMAIN heap /\ \A q \in 1..(r - 1) : q \in DOMAIN heap

\* The same objects under the references that name the store's own objects by
\* their first position in tienda.items; an object that nothing refers to any
\* more is gone. Which objects are one and the same object is kept.
recoger(heap, tienda, proveedor) ==
    LET primera(i) == CHOOSE j \in 1..i : tienda[j] = tienda[i]
                                          /\ \A k \in 1..(j - 1) : tienda[k] # tienda[i]
        nombre(i) == IF tienda[i] \in RefsCatalogo THEN tienda[i]
                     ELSE Cardinality(RefsCatalogo) + primera(i)
        refs == [i \in 1..Len(tienda) |-> nombre(i)]
    IN  [heap |-> [r \in RefsCatalogo \cup {refs[i] : i \in 1..Len(tienda)} |->
                     IF r \in RefsCatalogo THEN heap[r]
                     ELSE heap[tienda[CHOOSE i \in 1..Len(tienda) : refs[i] = r]]],
         tienda |-> refs,
         proveedor |-> proveedor]

\* The heap after the assignments that turned the store's items `its` into
\* `nuevos`, position by position: each assigned object is the one its position
\* refers to.
asignar(mem, its, nuevos) ==
    [r \in DOMAIN mem.heap |->
        IF \E i \in 1..Len(its) : mem.tienda[i] = r /\ nuevos[i] # its[i]
        THEN nuevos[CHOOSE i \in 1..Len(its) : mem.tienda[i] = r /\ nuevos[i] # its[i]]
        ELSE mem.heap[r]]

\* comprar turning nuevo_item itself into the stocked item and pushing it.
comprarEnMemoria_por_referencia(mem, dinero, x, cantidad, margen_ganancia) ==
    LET its == deref(mem.heap, mem.tienda)
        r == comprar(its, dinero, mem.heap[x], cantidad, margen_ganancia)
        nuevo_item == mem.heap[x]
    IN  IF Len(r.items) = Len(its)
        THEN [mem |-> mem, dinero |-> r.dinero, consola |-> r.consola]
        ELSE [mem |-> recoger([mem.heap EXCEPT ![x] =
                                         ItemTienda(nuevo_item.nombre, nuevo_item.precio,
                                                    nuevo_item.id, nuevo_item.descripcion,
                                                    cantidad, margen_ganancia)],
                              Append(mem.tienda, x), mem.proveedor),
              dinero |-> r.dinero, consola |-> r.consola]

\* Tienda.comprar: agregarItem builds a new ItemTienda (new object) and pushes it.
comprarEnMemoria(mem, dinero, x, cantidad, margen_ganancia) ==
    LET its == deref(mem.heap, mem.tienda)
        r == comprar(its, dinero, mem.heap[x], cantidad, margen_ganancia)
        itemEnTienda == nueva_ref(mem.heap)
    IN  IF Len(r.items) = Len(its)
        THEN [mem |-> mem, dinero |-> r.dinero, consola |-> r.consola]
        ELSE [mem |-> recoger((itemEnTienda :> r.items[Len(r.items)]) @@ mem.heap,
                              Append(mem.tienda, itemEnTienda), mem.proveedor),
              dinero |-> r.dinero, consola |-> r.consola]

\* eliminarPorId: splice takes the reference out of tienda.items.
eliminarEnMemoria(mem, item_id) ==
    LET its == deref(mem.heap, mem.tienda)
        index == find(its, item_id, 1)
        tienda == IF index # null THEN splice(mem.tienda, index) ELSE mem.tienda
    IN  [mem |-> recoger(mem.heap, tienda, mem.proveedor),
         ret |-> eliminarPorId(its, item_id).ret]

\* modificarStockItem: setStock assigns to the object `it` refers to.
modificarEnMemoria(mem, it, cantidad) ==
    LET its == deref(mem.heap, mem.tienda)
        r == modificarStockItem(its, it, cantidad)
    IN  [mem |-> [mem EXCEPT !.heap = asignar(mem, its, r.items)],
         ret |-> r.ret, consola |-> r.consola]

\* vender: the assignments of modificarStockItem, and the balance.
venderEnMemoria(mem, dinero, id_item_a_vender, cantidad_vendida) ==
    LET its == deref(mem.heap, mem.tienda)
        r == vender(its, dinero, id_item_a_vender, cantidad_vendida)
    IN  [mem |-> [mem EXCEPT !.heap = asignar(mem, its, r.items)], r |-> r]

\* new Tienda(): items = [].
MemoriaInicial == recoger(HeapInicial, <<>>, <<2>>)

InitCopia ==
    /\ memoria = MemoriaInicial
    /\ items = deref(memoria.heap, memoria.tienda)
    /\ prov_items = deref(memoria.heap, memoria.proveedor)
    /\ cantidad_dinero_en_cuenta \in DineroInicial
    /\ llamada = [op |-> "new"]
    /\ antes = Estado
    /\ fila = [paso |-> "sin calcular"]
    /\ peticion = [ruta |-> "ninguna"]
    /\ OtrosInicial

\* The lists of the objects that the references of `mem` name.
Listar(mem) ==
    /\ memoria' = mem
    /\ items' = deref(mem.heap, mem.tienda)
    /\ prov_items' = deref(mem.heap, mem.proveedor)
    /\ UNCHANGED <<antes, fila, peticion, otros>>

CopiaComprar(x, cantidad, margen_ganancia) ==
    LET r == comprarEnMemoria(memoria, cantidad_dinero_en_cuenta, x, cantidad, margen_ganancia)
    IN  /\ Len(items) < MaxItems
        /\ DentroDeCotas(deref(r.mem.heap, r.mem.tienda), r.dinero)
        /\ Listar(r.mem)
        /\ cantidad_dinero_en_cuenta' = r.dinero
        /\ llamada' = [op |-> "comprar", x |-> x, cantidad |-> cantidad]

CopiaEliminarPorId(item_id) ==
    LET r == eliminarEnMemoria(memoria, item_id)
    IN  /\ Listar(r.mem)
        /\ llamada' = [op |-> "eliminarPorId", id |-> item_id, ret |-> r.ret]
        /\ UNCHANGED cantidad_dinero_en_cuenta

CopiaModificarStockItem(it, cantidad) ==
    LET r == modificarEnMemoria(memoria, it, cantidad)
    IN  /\ DentroDeCotas(deref(r.mem.heap, r.mem.tienda), cantidad_dinero_en_cuenta)
        /\ Listar(r.mem)
        /\ llamada' = [op |-> "modificarStockItem", item |-> it, ref |-> memoria.tienda[it],
                       cantidad |-> cantidad, ret |-> r.ret]
        /\ UNCHANGED cantidad_dinero_en_cuenta

CopiaVender(id_item_a_vender, cantidad_vendida) ==
    LET v == venderEnMemoria(memoria, cantidad_dinero_en_cuenta, id_item_a_vender,
                             cantidad_vendida)
    IN  /\ DentroDeCotas(deref(v.mem.heap, v.mem.tienda), v.r.dinero)
        /\ Listar(v.mem)
        /\ cantidad_dinero_en_cuenta' = v.r.dinero
        /\ llamada' = [op |-> "vender", id |-> id_item_a_vender, cantidad |-> cantidad_vendida,
                       venta |-> v.r.venta]

NextCopia ==
    \/ \E x \in RefsCatalogo, cantidad \in Cantidades, margen_ganancia \in Margenes :
          CopiaComprar(x, cantidad, margen_ganancia)
    \/ \E item_id \in Ids : CopiaEliminarPorId(item_id)
    \/ \E it \in 1..Len(items), cantidad \in Cantidades : CopiaModificarStockItem(it, cantidad)
    \/ \E id \in Ids, cantidad \in Cantidades : CopiaVender(id, cantidad)

SpecCopia == InitCopia /\ [][NextCopia]_vars

----------------------------------------------------------------------------
(* Dashboard ejecutivo: the columns that sistema_alertas adds to a row of      *)
(* kpis_calculados. Percentages and ratios are numbers of tenths (2.5 is 25,  *)
(* -15 is -150); productos_activos is a count.                                 *)

\* SQL NULL. A comparison with NULL is not true, so a WHEN with it is skipped.
NULL == 0 - 999997

SqlLt(a, b) == a # NULL /\ b # NULL /\ a < b
SqlGt(a, b) == a # NULL /\ b # NULL /\ a > b

ABS(x) == IF x = NULL THEN NULL ELSE IF x < 0 THEN 0 - x ELSE x

\* PostgreSQL: NULL arguments are ignored.
LEAST(a, b) == IF a = NULL THEN b ELSE IF b = NULL THEN a ELSE IF a < b THEN a ELSE b
GREATEST(a, b) == IF a = NULL THEN b ELSE IF b = NULL THEN a ELSE IF a > b THEN a ELSE b

\* The CASE with the customer-loss branch moved to the top.
estado_alerta_principal_clientes_primero(k) ==
    IF SqlLt(k.crecimiento_mensual_clientes, 0 - 200) THEN "CRÍTICO: Pérdida masiva de clientes"
    ELSE IF SqlLt(k.crecimiento_mensual_ingresos, 0 - 150) THEN "CRÍTICO: Caída severa de ingresos"
    ELSE IF SqlLt(k.crecimiento_mensual_ingresos, 0 - 100) THEN "ALERTA: Caída significativa de ingresos"
    ELSE IF SqlLt(k.ratio_ingresos_costos_personal, 25) THEN "ALERTA: Baja eficiencia de personal"
    ELSE IF SqlLt(k.tasa_nuevos_clientes, 30) THEN "ALERTA: Baja adquisición de clientes"
    ELSE IF SqlGt(ABS(k.desviacion_tendencia_ingresos), 250) THEN "ALERTA: Desviación extrema de tendencia"
    ELSE IF SqlLt(k.rotacion_promedio_mensual, 5) THEN "ALERTA: Inventario lento"
    ELSE "NORMAL"

estado_alerta_principal(k) ==
    IF SqlLt(k.crecimiento_mensual_ingresos, 0 - 150) THEN "CRÍTICO: Caída severa de ingresos"
    ELSE IF SqlLt(k.crecimiento_mensual_ingresos, 0 - 100) THEN "ALERTA: Caída significativa de ingresos"
    ELSE IF SqlLt(k.crecimiento_mensual_clientes, 0 - 200) THEN "CRÍTICO: Pérdida masiva de clientes"
    ELSE IF SqlLt(k.ratio_ingresos_costos_personal, 25) THEN "ALERTA: Baja eficiencia de personal"
    ELSE IF SqlLt(k.tasa_nuevos_clientes, 30) THEN "ALERTA: Baja adquisición de clientes"
    ELSE IF SqlGt(ABS(k.desviacion_tendencia_ingresos), 250) THEN "ALERTA: Desviación extrema de tendencia"
    ELSE IF SqlLt(k.rotacion_promedio_mensual, 5) THEN "ALERTA: Inventario lento"
    ELSE "NORMAL"

\* A growth component that gives 30 points to the best growth.
componente_crecimiento_30(k) ==
    IF SqlGt(k.crecimiento_anual_ingresos, 250) THEN 30
    ELSE IF SqlGt(k.crecimiento_anual_ingresos, 150) THEN 20
    ELSE IF SqlGt(k.crecimiento_anual_ingresos, 50) THEN 15
    ELSE IF SqlGt(k.crecimiento_anual_ingresos, 0 - 50) THEN 10
    ELSE 5

\* Componente de crecimiento (25 puntos)
componente_crecimiento(k) ==
    IF SqlGt(k.crecimiento_anual_ingresos, 250) THEN 25
    ELSE IF SqlGt(k.crecimiento_anual_ingresos, 150) THEN 20
    ELSE IF SqlGt(k.crecimiento_anual_ingresos, 50) THEN 15
    ELSE IF SqlGt(k.crecimiento_anual_ingresos, 0 - 50) THEN 10
    ELSE 5

\* Componente de eficiencia (25 puntos)
componente_eficiencia(k) ==
    IF SqlGt(k.ratio_ingresos_costos_personal, 60) THEN 25
    ELSE IF SqlGt(k.ratio_ingresos_costos_personal, 40) THEN 20
    ELSE IF SqlGt(k.ratio_ingresos_costos_personal, 30) THEN 15
    ELSE IF SqlGt(k.ratio_ingresos_costos_personal, 20) THEN 10
    ELSE 5

\* Componente de clientes (25 puntos)
componente_clientes(k) ==
    IF SqlGt(k.tasa_retencion_clientes, 700) /\ SqlGt(k.tasa_nuevos_clientes, 100) THEN 25
    ELSE IF SqlGt(k.tasa_retencion_clientes, 600) \/ SqlGt(k.tasa_nuevos_clientes, 80) THEN 20
    ELSE IF SqlGt(k.tasa_retencion_clientes, 500) \/ SqlGt(k.tasa_nuevos_clientes, 50) THEN 15
    ELSE IF SqlGt(k.tasa_retencion_clientes, 400) \/ SqlGt(k.tasa_nuevos_clientes, 30) THEN 10
    ELSE 5

\* Componente de operaciones (25 puntos)
componente_operaciones(k) ==
    IF SqlGt(k.rotacion_promedio_mensual, 20) /\ SqlGt(k.productos_activos, 5) THEN 25
    ELSE IF SqlGt(k.rotacion_promedio_mensual, 15) THEN 20
    ELSE IF SqlGt(k.rotacion_promedio_mensual, 10) THEN 15
    ELSE IF SqlGt(k.rotacion_promedio_mensual, 5) THEN 10
    ELSE 5

componentes(k) ==
    <<componente_crecimiento(k), componente_eficiencia(k),
      componente_clientes(k), componente_operaciones(k)>>

\* Puntuación de salud del negocio (0-100)
puntuacion_salud_negocio(k) ==
    LEAST(100, GREATEST(0, componentes(k)[1] + componentes(k)[2]
                           + componentes(k)[3] + componentes(k)[4]))

\* The Tienda, the Proveedor and the server take no part in the query.
SoloConsulta ==
    /\ items = <<>>
    /\ prov_items = <<>>
    /\ cantidad_dinero_en_cuenta = 0
    /\ llamada = [op |-> "new"]
    /\ antes = Estado
    /\ memoria = [heap |-> <<>>, tienda |-> <<>>, proveedor |-> <<>>]
    /\ peticion = [ruta |-> "ninguna"]
    /\ OtrosInicial

\* Rows of kpis_calculados, the columns that the score reads: a value on each
\* side of every threshold, and NULL.
KpisSalud ==
    [ crecimiento_anual_ingresos : {NULL, 0 - 100, 0, 100, 200, 300},
      ratio_ingresos_costos_personal : {NULL, 15, 25, 35, 50, 70},
      tasa_retencion_clientes : {NULL, 300, 450, 550, 650, 750},
      tasa_nuevos_clientes : {NULL, 0, 40, 60, 90, 110},
      rotacion_promedio_mensual : {NULL, 3, 7, 12, 17, 25},
      productos_activos : {NULL, 5, 6} ]

InitSalud ==
    /\ fila \in [paso : {"kpis_calculados"}, kpis : KpisSalud]
    /\ SoloConsulta

\* sistema_alertas: SELECT *, ... as puntuacion_salud_negocio FROM kpis_calculados
SistemaAlertasSalud ==
    /\ fila.paso = "kpis_calculados"
    /\ fila' = [paso |-> "sistema_alertas", kpis |-> fila.kpis,
                componentes |-> componentes(fila.kpis),
                puntuacion_salud_negocio |-> puntuacion_salud_negocio(fila.kpis)]
    /\ UNCHANGED <<items, prov_items, cantidad_dinero_en_cuenta, llamada, antes,
                   memoria, peticion, otros>>

NextSalud == SistemaAlertasSalud

SpecSalud == InitSalud /\ [][NextSalud]_vars

\* Rows of kpis_calculados, the columns that the alert reads.
KpisAlerta ==
    [ crecimiento_mensual_ingresos : {NULL, 0 - 200, 0 - 150, 0 - 120, 0},
      crecimiento_mensual_clientes : {NULL, 0 - 250, 0 - 200, 0},
      ratio_ingresos_costos_personal : {NULL, 20, 25, 30},
      tasa_nuevos_clientes : {NULL, 0, 20, 30},
      desviacion_tendencia_ingresos : {NULL, 0 - 300, 0, 250, 300},
      rotacion_promedio_mensual : {NULL, 3, 5, 7} ]

InitAlerta ==
    /\ fila \in [paso : {"kpis_calculados"}, kpis : KpisAlerta]
    /\ SoloConsulta

\* sistema_alertas: SELECT *, ... as estado_alerta_principal FROM kpis_calculados
SistemaAlertas ==
    /\ fila.paso = "kpis_calculados"
    /\ fila' = [paso |-> "sistema_alertas", kpis |-> fila.kpis,
                estado_alerta_principal |-> estado_alerta_principal(fila.kpis)]
    /\ UNCHANGED <<items, prov_items, cantidad_dinero_en_cuenta, llamada, antes,
                   memoria, peticion, otros>>

NextAlerta == SistemaAlertas

SpecAlerta == InitAlerta /\ [][NextAlerta]_vars

----------------------------------------------------------------------------
(* The /ping routes behind randomMiddleware. Math.random() and probabilidad   *)
(* are numbers of hundredths: a draw is one of 0 .. Centesimas - 1.            *)

Centesimas == 100

Math_random == 0..(Centesimas - 1)

\* app.get(ruta, randomMiddleware(probabilidad), handler)
Rutas ==
    { [ruta |-> "/ping", probabilidad |-> 50],
      [ruta |-> "/ping-2", probabilidad |-> 10],
      [ruta |-> "/ping-3", probabilidad |-> 90] }

\* The middleware returned by randomMiddleware(probabilidad), given the value
\* that Math.random() returns: the calls of next and the response it sends.
randomMiddleware(probabilidad, random) ==
    IF random > probabilidad
    THEN [next |-> 1, status |-> null, body |-> "ninguno"]
    ELSE [next |-> 0, status |-> 500, body |-> "Error aleatorio por middleware"]

\* (request, response) => { console.log("llego un ping"); response.send({ ok: true }) }
handler == [status |-> 200, body |-> "ok: true"]

InitPing ==
    /\ peticion = [ruta |-> "ninguna"]
    /\ OtrosInicial
    /\ fila = [paso |-> "sin calcular"]
    /\ items = <<>>
    /\ prov_items = <<>>
    /\ cantidad_dinero_en_cuenta = 0
    /\ llamada = [op |-> "new"]
    /\ antes = Estado
    /\ memoria = [heap |-> <<>>, tienda |-> <<>>, proveedor |-> <<>>]

\* GET r.ruta: the middleware runs, and the handler runs if next was called.
Get_ping(r, random) ==
    LET m == randomMiddleware(r.probabilidad, random)
        respuesta == IF m.next = 1 THEN handler ELSE [status |-> m.status, body |-> m.body]
    IN  /\ peticion' = [ruta |-> r.ruta, probabilidad |-> r.probabilidad, random |-> random,
                        next |-> m.next, middleware_status |-> m.status,
                        status |-> respuesta.status, body |-> respuesta.body]
        /\ UNCHANGED <<items, prov_items, cantidad_dinero_en_cuenta, llamada, antes,
                       memoria, fila, otros>>

NextPing == \E r \in Rutas, random \in Math_random : Get_ping(r, random)

SpecPing == InitPing /\ [][NextPing]_vars

----------------------------------------------------------------------------
(* empleados and historial_salarios with the trigger trg_empleados_salario.   *)
(* A salary is a number of units; an employee row is [id, salario, cargo].     *)

MaxHistorial == 3   \* updates are explored while historial_salarios holds fewer rows

\* a IS DISTINCT FROM b
IsDistinctFrom(a, b) == a # b

\* a != b: not true when a side is NULL
SqlNe(a, b) == a # NULL /\ b # NULL /\ a # b

\* INSERT INTO historial_salarios: salario_anterior and salario_nuevo are NOT
\* NULL, and chk_salarios_diferentes CHECK (salario_anterior != salario_nuevo).
insert_historial(historial, fila_nueva) ==
    IF \/ fila_nueva.salario_anterior = NULL
       \/ fila_nueva.salario_nuevo = NULL
       \/ fila_nueva.salario_anterior = fila_nueva.salario_nuevo
    THEN [error |-> TRUE, historial |-> historial]
    ELSE [error |-> FALSE, historial |-> Append(historial, fila_nueva)]

\* registrar_cambio_salario writing the two salaries in each other's column.
registrar_cambio_salario_intercambiado(historial, Old, New) ==
    IF SqlNe(New.salario, Old.salario)
    THEN insert_historial(historial,
            [empleado_id |-> New.id, salario_anterior |-> New.salario,
             salario_nuevo |-> Old.salario])
    ELSE [error |-> FALSE, historial |-> historial]

\* registrar_cambio_salario(): the trigger function, on the rows OLD (Old) and NEW (New).
registrar_cambio_salario(historial, Old, New) ==
    IF SqlNe(New.salario, Old.salario)
    THEN insert_historial(historial,
            [empleado_id |-> New.id, salario_anterior |-> Old.salario,
             salario_nuevo |-> New.salario])
    ELSE [error |-> FALSE, historial |-> historial]

\* trg_empleados_salario: AFTER UPDATE ON empleados FOR EACH ROW
\* WHEN (OLD.salario IS DISTINCT FROM NEW.salario)
trg_empleados_salario(historial, Old, New) ==
    IF IsDistinctFrom(Old.salario, New.salario)
    THEN registrar_cambio_salario(historial, Old, New)
    ELSE [error |-> FALSE, historial |-> historial]

\* salario DECIMAL(10,2) NOT NULL, chk_salario_positivo CHECK (salario > 0)
empleado_valido(e) == e.salario # NULL /\ e.salario > 0

\* UPDATE empleados SET <columna> = <valor> WHERE id = <id>: the row is checked
\* against the constraints of empleados, then the trigger runs; an error at any
\* point leaves both tables as they were.
update_empleados(t, id, columna, valor) ==
    LET i == find(t.empleados, id, 1)
        Old == t.empleados[i]
        New == [Old EXCEPT ![columna] = valor]
        r == trg_empleados_salario(t.historial_salarios, Old, New)
    IN  IF i = null THEN [error |-> FALSE, filas |-> 0, tablas |-> t]
        ELSE IF ~empleado_valido(New) \/ r.error THEN [error |-> TRUE, filas |-> 0, tablas |-> t]
        ELSE [error |-> FALSE, filas |-> 1,
              tablas |-> [empleados |-> [t.empleados EXCEPT ![i] = New],
                          historial_salarios |-> r.historial]]

Salarios == {NULL, 0, 1000, 1500}

Cargos == {"Analista", "Gerente"}

EmpleadosIniciales ==
    { <<[id |-> 1, salario |-> 1000, cargo |-> "Analista"],
        [id |-> 2, salario |-> s, cargo |-> "Analista"]>> : s \in {1000, 1500} }

InitSalarios ==
    /\ tablas \in [empleados : EmpleadosIniciales, historial_salarios : {<<>>}]
    /\ llamada = [op |-> "CREATE TABLE"]
    /\ items = <<>>
    /\ prov_items = <<>>
    /\ cantidad_dinero_en_cuenta = 0
    /\ antes = Estado
    /\ memoria = [heap |-> <<>>, tienda |-> <<>>, proveedor |-> <<>>]
    /\ fila = [paso |-> "sin calcular"]
    /\ peticion = [ruta |-> "ninguna"]
    /\ arranque = [fase |-> "sin iniciar"]
    /\ persona = [vida |-> 100]

UpdateEmpleados(id, columna, valor) ==
    LET r == update_empleados(tablas, id, columna, valor)
    IN  /\ Len(tablas.historial_salarios) < MaxHistorial
        /\ tablas' = r.tablas
        /\ llamada' = [op |-> "UPDATE empleados", id |-> id, columna |-> columna,
                       valor |-> valor, error |-> r.error, filas |-> r.filas,
                       tablas_antes |-> tablas]
        /\ UNCHANGED <<items, prov_items, cantidad_dinero_en_cuenta, antes, memoria, fila,
                       peticion, arranque, persona>>

NextSalarios ==
    \/ \E id \in 1..3, valor \in Salarios : UpdateEmpleados(id, "salario", valor)
    \/ \E id \in 1..3, valor \in Cargos : UpdateEmpleados(id, "cargo", valor)

SpecSalarios == InitSalarios /\ [][NextSalarios]_vars

----------------------------------------------------------------------------
(* Persona *)

MaxVida == 101      \* decrementarVida is explored while vida stays at most this

\* decrementarVida subtracting without the test that stops at 0.
decrementarVida_sin_tope(vida, vida_a_restar) ==
    [vida |-> JsSub(vida, vida_a_restar), ret |-> JsSub(vida, vida_a_restar), consola |-> <<>>]

\* Persona.decrementarVida(vida_a_restar): the vida it leaves, what it returns
\* (this.vida) and what it logs.
decrementarVida(vida, vida_a_restar) ==
    IF JsGt(vida_a_restar, vida)
    THEN [vida |-> 0, ret |-> 0, consola |-> <<"El personaje ha muerto">>]
    ELSE [vida |-> JsSub(vida, vida_a_restar), ret |-> JsSub(vida, vida_a_restar),
          consola |-> <<>>]

\* The numbers handed to decrementarVida.
Restas == {NaN, 0 - 1, 0, 1, 30, 100, 101}

\* new Persona(edad, nombre): vida: number = 100
InitPersona ==
    /\ persona = [vida |-> 100]
    /\ tablas = [empleados |-> <<>>, historial_salarios |-> <<>>]
    /\ arranque = [fase |-> "sin iniciar"]
    /\ llamada = [op |-> "new"]
    /\ items = <<>>
    /\ prov_items = <<>>
    /\ cantidad_dinero_en_cuenta = 0
    /\ antes = Estado
    /\ memoria = [heap |-> <<>>, tienda |-> <<>>, proveedor |-> <<>>]
    /\ fila = [paso |-> "sin calcular"]
    /\ peticion = [ruta |-> "ninguna"]

DecrementarVida(vida_a_restar) ==
    LET r == decrementarVida(persona.vida, vida_a_restar)
    IN  /\ r.vida = NaN \/ r.vida <= MaxVida
        /\ persona' = [vida |-> r.vida, vida_antes |-> persona.vida,
                       vida_a_restar |-> vida_a_restar, ret |-> r.ret, consola |-> r.consola]
        /\ UNCHANGED <<items, prov_items, cantidad_dinero_en_cuenta, llamada, antes, memoria,
                       fila, peticion, tablas, arranque>>

NextPersona == \E vida_a_restar \in Restas : DecrementarVida(vida_a_restar)

SpecPersona == InitPersona /\ [][NextPersona]_vars

----------------------------------------------------------------------------
(* The start of the Mongo demo: connectToMongoDB().then(() => crearUsuario()). *)
(* A promise is "pendiente", "cumplida" or "rechazada"; the outcome of an      *)
(* awaited call is "ok" or the error it throws or rejects with.                *)

MaxErrores == 4     \* the errors that mongoose.connect and User.create can fail with

Errores == 1..MaxErrores

\* The outcomes of an awaited call: its promise is fulfilled, its promise is
\* rejected with an error, or the call itself throws the error (sincrono).
Asincronos ==
    {[estado |-> "ok", error |-> 0, sincrono |-> FALSE]}
    \cup {[estado |-> "error", error |-> e, sincrono |-> FALSE] : e \in Errores}

Sincronos == {[estado |-> "error", error |-> e, sincrono |-> TRUE] : e \in Errores}

\* An awaited call that has not settled, and a call that was not made.
Pendiente == [estado |-> "pendiente", error |-> 0, sincrono |-> FALSE]

SinLlamar == [estado |-> "sin llamar", error |-> 0, sincrono |-> FALSE]

Resultados == Asincronos \cup Sincronos

ArranqueInicial ==
    [fase |-> "sin iniciar"]

\* connectToMongoDB after its await without the try / catch around it.
connectToMongoDB_sin_catch(resultado) ==
    IF resultado.estado = "ok"
    THEN [promesa |-> "cumplida", consola |-> <<"Conexion con DB exitosa!">>]
    ELSE [promesa |-> "rechazada", consola |-> <<>>]

\* connectToMongoDB from the point where `await mongoose.connect(...)` has its
\* outcome: what is logged and how the promise of the async function settles.
connectToMongoDB(resultado) ==
    IF resultado.estado = "ok"
    THEN [promesa |-> "cumplida", consola |-> <<"Conexion con DB exitosa!">>]
    ELSE [promesa |-> "cumplida",
          consola |-> <<<<"[SERVER ERROR]: Fallo en la conexion,", resultado.error>>>>]

\* crearUsuario from the point where `await User.create(...)` has its outcome.
crearUsuario(resultado) ==
    IF resultado.estado = "ok"
    THEN [promesa |-> "cumplida", consola |-> <<"[SERVER]: Usuario creado exitosamente">>]
    ELSE [promesa |-> "cumplida",
          consola |-> <<<<"[SERVER ERROR]: No se pudo crear el usuario,", resultado.error>>>>]

InitMongo ==
    /\ arranque = ArranqueInicial
    /\ tablas = [empleados |-> <<>>, historial_salarios |-> <<>>]
    /\ persona = [vida |-> 100]
    /\ llamada = [op |-> "new"]
    /\ items = <<>>
    /\ prov_items = <<>>
    /\ cantidad_dinero_en_cuenta = 0
    /\ antes = Estado
    /\ memoria = [heap |-> <<>>, tienda |-> <<>>, proveedor |-> <<>>]
    /\ fila = [paso |-> "sin calcular"]
    /\ peticion = [ruta |-> "ninguna"]

SoloArranque ==
    UNCHANGED <<items, prov_items, cantidad_dinero_en_cuenta, llamada, antes, memoria,
                fila, peticion, tablas, persona>>

\* The module runs: connectToMongoDB() is called and runs up to its await, where
\* the connection attempt starts, or to its end when mongoose.connect throws;
\* then(...) registers the callback.
LlamarConnect(inicio) ==
    /\ arranque.fase = "sin iniciar"
    /\ arranque' =
         LET a == [fase |-> "conectando", conexion |-> Pendiente,
                   promesa_connect |-> "pendiente", then_registrado |-> TRUE,
                   llamadas_crearUsuario |-> 0, create |-> SinLlamar,
                   promesa_crear |-> "no existe", consola |-> <<>>,
                   rechazos_sin_manejar |-> 0, conexion_al_llamar |-> SinLlamar]
             r == connectToMongoDB(inicio)
         IN  IF inicio = Pendiente THEN a
             ELSE [a EXCEPT !.fase = "connect terminado", !.conexion = inicio,
                            !.promesa_connect = r.promesa, !.consola = r.consola]
    /\ SoloArranque

\* mongoose.connect settles: it connected, or it failed with an error.
ConnectSeResuelve(resultado) ==
    /\ arranque.fase = "conectando"
    /\ arranque' = [arranque EXCEPT !.fase = "conexion resuelta", !.conexion = resultado]
    /\ SoloArranque

\* connectToMongoDB resumes after its await and runs to its end.
ReanudarConnect ==
    /\ arranque.fase = "conexion resuelta"
    /\ LET r == connectToMongoDB(arranque.conexion)
       IN  arranque' = [arranque EXCEPT !.fase = "connect terminado",
                                        !.promesa_connect = r.promesa,
                                        !.consola = @ \o r.consola]
    /\ SoloArranque

\* The reaction registered by then(...) runs once the promise has settled: the
\* callback calls crearUsuario, which runs up to its await; a rejected promise
\* skips the callback and rejects the promise that then returned, which nobody
\* handles. When User.create throws, crearUsuario runs to its end at once.
EjecutarThen(inicio) ==
    /\ arranque.fase = "connect terminado"
    /\ arranque.then_registrado
    /\ arranque' =
         LET r == crearUsuario(inicio)
         IN  IF arranque.promesa_connect # "cumplida"
             THEN [arranque EXCEPT !.fase = "terminado",
                                   !.rechazos_sin_manejar = @ + 1]
             ELSE IF inicio = Pendiente
             THEN [arranque EXCEPT !.fase = "creando",
                                   !.llamadas_crearUsuario = @ + 1,
                                   !.conexion_al_llamar = arranque.conexion,
                                   !.create = Pendiente,
                                   !.promesa_crear = "pendiente"]
             ELSE [arranque EXCEPT !.fase = "terminado",
                                   !.llamadas_crearUsuario = @ + 1,
                                   !.conexion_al_llamar = arranque.conexion,
                                   !.create = inicio,
                                   !.promesa_crear = r.promesa,
                                   !.consola = @ \o r.consola,
                                   !.rechazos_sin_manejar =
                                       IF r.promesa = "rechazada" THEN @ + 1 ELSE @]
    /\ SoloArranque

\* User.create settles: the document was saved, or it failed with an error.
CreateSeResuelve(resultado) ==
    /\ arranque.fase = "creando"
    /\ arranque' = [arranque EXCEPT !.fase = "create resuelto", !.create = resultado]
    /\ SoloArranque

\* crearUsuario resumes after its await and runs to its end; its promise is not
\* handled by anybody, so a rejection of it is an unhandled rejection.
ReanudarCrear ==
    /\ arranque.fase = "create resuelto"
    /\ LET r == crearUsuario(arranque.create)
       IN  arranque' = [arranque EXCEPT !.fase = "terminado",
                                        !.promesa_crear = r.promesa,
                                        !.consola = @ \o r.consola,
                                        !.rechazos_sin_manejar =
                                            IF r.promesa = "rechazada" THEN @ + 1 ELSE @]
    /\ SoloArranque

NextMongo ==
    \/ \E inicio \in {Pendiente} \cup Sincronos : LlamarConnect(inicio)
    \/ \E resultado \in Asincronos : ConnectSeResuelve(resultado)
    \/ ReanudarConnect
    \/ \E inicio \in {Pendiente} \cup Sincronos : EjecutarThen(inicio)
    \/ \E resultado \in Asincronos : CreateSeResuelve(resultado)
    \/ ReanudarCrear

\* The event loop runs every job that is ready, and mongoose settles every
\* operation it started (it gives up after its timeouts).
SpecMongo == InitMongo /\ [][NextMongo]_vars /\ WF_vars(NextMongo)

----------------------------------------------------------------------------
(* The lookups applied to every list of items up to a length *)

Listas(S) == UNION {[1..n -> S] : n \in 0..MaxLista}

ItemsDeTienda ==
    { ItemTienda(c.nombre, c.precio, c.id, c.descripcion, stock, 20) :
        c \in Catalogo, stock \in {0, 1} }

ItemsDeProveedor ==
    { ItemProveedor("Agua", 10, 1, "Bebible", 1),
      ItemProveedor("Agua con gas", 12, 1, "Bebible", 1),
      ItemProveedor("coca", 15, 2, "soda", 1) }

InitBuscar ==
    /\ items \in Listas(ItemsDeTienda)
    /\ prov_items \in Listas(ItemsDeProveedor)
    /\ cantidad_dinero_en_cuenta \in DineroInicial
    /\ llamada = [op |-> "new"]
    /\ antes = Estado
    /\ RestoInicial

NextBuscar ==
    \/ \E id \in Ids \cup {3} : BuscarItemPorId(id)
    \/ \E item_id \in Ids \cup {3} : ProvBuscarItemPorId(item_id)

SpecBuscar == InitBuscar /\ [][NextBuscar]_vars

----------------------------------------------------------------------------
(* Claims *)

\* The first item of `its` whose id is `id`, as a position, 0 when there is none.
PrimeroConId(its, id) ==
    IF \E i \in 1..Len(its) : its[i].id = id
    THEN CHOOSE i \in 1..Len(its) :
            its[i].id = id /\ \A j \in 1..(i - 1) : its[j].id # id
    ELSE 0

\* C1: a comprar(nuevo_item, cantidad, margen) whose cost cantidad * nuevo_item.precio
\* is at most the balance lowers the balance by exactly that cost and appends one
\* ItemTienda with nuevo_item's nombre, precio, id and descripcion, stock = cantidad
\* and margin = margen, leaving the items held before unchanged.
C1_CompraExitosa ==
    (/\ llamada.op = "comprar"
     /\ JsLe(llamada.cantidad * llamada.nuevo_item.precio, antes.dinero))
    => /\ cantidad_dinero_en_cuenta
            = antes.dinero - llamada.cantidad * llamada.nuevo_item.precio
       /\ Len(items) = Len(antes.items) + 1
       /\ SubSeq(items, 1, Len(antes.items)) = antes.items
       /\ items[Len(items)] =
            ItemTienda(llamada.nuevo_item.nombre, llamada.nuevo_item.precio,
                       llamada.nuevo_item.id, llamada.nuevo_item.descripcion,
                       llamada.cantidad, llamada.margen_ganancia)

\* C2: a comprar whose cost cantidad * nuevo_item.precio exceeds the balance changes
\* neither the balance nor items.
C2_CompraRechazada ==
    (/\ llamada.op = "comprar"
     /\ JsGt(llamada.cantidad * llamada.nuevo_item.precio, antes.dinero))
    => /\ cantidad_dinero_en_cuenta = antes.dinero
       /\ items = antes.items

C2_Testigo ==
    /\ llamada.op = "comprar"
    /\ llamada.cantidad * llamada.nuevo_item.precio > antes.dinero
    /\ antes.dinero # NaN
    /\ Len(antes.items) > 0
    /\ llamada.consola = <<"la compra no se puede realizar">>

\* C3 as stated: whatever integer quantities the calls pass, every item held has
\* stock >= 0.
C3_StockNuncaNegativo ==
    \A i \in 1..Len(items) : items[i].stock >= 0

\* C3 as amended: a call that is not a comprar with a negative cantidad, made on a
\* store whose items all have stock >= 0, leaves every item held with stock >= 0;
\* so stock stays >= 0 along every sequence of calls whose comprar calls pass a
\* cantidad >= 0, whatever integers modificarStockItem, vender and eliminarPorId get.
C3_StockNoNegativoSinCompraNegativa ==
    (/\ \A i \in 1..Len(antes.items) : antes.items[i].stock >= 0
     /\ ~(llamada.op = "comprar" /\ llamada.cantidad < 0))
    => \A i \in 1..Len(items) : items[i].stock >= 0

C3_Testigo ==
    /\ llamada.op \in {"vender", "modificarStockItem"}
    /\ llamada.cantidad > 0
    /\ Len(items) = Len(antes.items)
    /\ \A i \in 1..Len(antes.items) : antes.items[i].stock >= 0
    /\ \E i \in 1..Len(items) :
          /\ items[i].stock = 0
          /\ antes.items[i].stock = llamada.cantidad

\* C4: a vender(id, cantidad) that finds an item with that id whose stock is at least
\* cantidad lowers that item's stock by exactly cantidad and raises the balance by
\* exactly cantidad * precio * the margin rate the ItemTienda constructor stored.
C4_VentaExitosa ==
    LET it == PrimeroConId(antes.items, llamada.id)
    IN  (/\ llamada.op = "vender"
         /\ it # 0
         /\ llamada.cantidad <= antes.items[it].stock)
        => /\ items[it].stock = antes.items[it].stock - llamada.cantidad
           /\ cantidad_dinero_en_cuenta =
                JsAdd(antes.dinero,
                      llamada.cantidad * antes.items[it].precio
                                       * antes.items[it].margen_ganacia)

\* C5: a vender(id, cantidad) that finds the item but with stock below cantidad
\* fulfils nothing: items and the balance are unchanged; and in every vender the
\* balance is credited if and only if the stock decrement of that sale succeeded.
C5_VentaSinStock ==
    LET it == PrimeroConId(antes.items, llamada.id)
    IN  llamada.op = "vender"
        => /\ (it # 0 /\ llamada.cantidad > antes.items[it].stock)
                => (items = antes.items /\ cantidad_dinero_en_cuenta = antes.dinero)
           /\ llamada.acredita
                <=> (/\ it # 0
                     /\ llamada.cantidad <= antes.items[it].stock
                     /\ items[it].stock = antes.items[it].stock - llamada.cantidad)
           /\ ~llamada.acredita => cantidad_dinero_en_cuenta = antes.dinero

C5_Testigo ==
    LET it == PrimeroConId(antes.items, llamada.id)
    IN  /\ llamada.op = "vender"
        /\ it # 0
        /\ llamada.cantidad > antes.items[it].stock
        /\ antes.items[it].stock > 0
        /\ antes.dinero # NaN
        /\ llamada.consola = <<"no se puede decrementar la cantidad", "No hay stock suficiente">>

\* C6: a vender(id, cantidad) for an id that no item has returns early: the balance
\* and the items are unchanged and modificarStockItem is not called.
C6_VentaIdDesconocido ==
    (/\ llamada.op = "vender"
     /\ \A i \in 1..Len(antes.items) : antes.items[i].id # llamada.id)
    => /\ items = antes.items
       /\ cantidad_dinero_en_cuenta = antes.dinero
       /\ \A k \in 1..Len(llamada.traza) : llamada.traza[k] # "modificarStockItem"
       /\ llamada.consola = <<"Producto no encontrado">>

C6_Testigo ==
    /\ llamada.op = "vender"
    /\ Len(antes.items) > 0
    /\ \A i \in 1..Len(antes.items) : antes.items[i].id # llamada.id
    /\ \E i \in 1..Len(antes.items) : antes.items[i].stock >= llamada.cantidad
    /\ llamada.cantidad > 0

\* C7: modificarStockItem(item, cantidad) with cantidad <= item.stock returns true and
\* leaves the item's stock at the previous stock minus cantidad, also when cantidad
\* equals the stock (which leaves 0).
C7_ModificarStockExito ==
    (/\ llamada.op = "modificarStockItem"
     /\ llamada.cantidad <= antes.items[llamada.item].stock)
    => /\ llamada.ret = TRUE
       /\ items[llamada.item].stock = antes.items[llamada.item].stock - llamada.cantidad

C7_Testigo ==
    /\ llamada.op = "modificarStockItem"
    /\ llamada.cantidad > 0
    /\ llamada.cantidad = antes.items[llamada.item].stock
    /\ llamada.ret = TRUE
    /\ items[llamada.item].stock = 0

\* C8: modificarStockItem(item, cantidad) with cantidad > item.stock returns false and
\* leaves that item's stock, every other item and the balance unchanged.
C8_ModificarStockFallo ==
    (/\ llamada.op = "modificarStockItem"
     /\ llamada.cantidad > antes.items[llamada.item].stock)
    => /\ llamada.ret = FALSE
       /\ items = antes.items
       /\ cantidad_dinero_en_cuenta = antes.dinero

C8_Testigo ==
    /\ llamada.op = "modificarStockItem"
    /\ llamada.cantidad > antes.items[llamada.item].stock
    /\ antes.items[llamada.item].stock > 0
    /\ Len(antes.items) > 1
    /\ llamada.ret = FALSE

\* C9: buscarItemPorId of Tienda and of Proveedor returns the first element, in
\* insertion order, whose id is the argument, and null when no element has that id.
C9_BuscarPrimeroONull ==
    LET its == IF llamada.op = "buscarItemPorId" THEN antes.items ELSE antes.prov_items
    IN  llamada.op \in {"buscarItemPorId", "Proveedor.buscarItemPorId"}
        => /\ llamada.ret = null <=> \A i \in 1..Len(its) : its[i].id # llamada.id
           /\ llamada.ret # null
                => /\ llamada.ret \in 1..Len(its)
                   /\ its[llamada.ret].id = llamada.id
                   /\ \A j \in 1..(llamada.ret - 1) : its[j].id # llamada.id

C9_Testigo ==
    /\ llamada.op = "buscarItemPorId"
    /\ llamada.ret # null
    /\ \E j \in (llamada.ret + 1)..Len(antes.items) :
          /\ antes.items[j].id = llamada.id
          /\ antes.items[j] # antes.items[llamada.ret]

\* C10: a buscarItemPorId call changes neither items nor the balance, and a call
\* that directly follows another buscarItemPorId call with the same id returns the
\* same result.
C10_BuscarSinEfectos ==
    [][llamada'.op = "buscarItemPorId"
        => /\ items' = items
           /\ cantidad_dinero_en_cuenta' = cantidad_dinero_en_cuenta
           /\ (llamada.op = "buscarItemPorId" /\ llamada.id = llamada'.id)
                => llamada'.ret = llamada.ret]_vars

C10_Testigo ==
    /\ llamada.op = "buscarItemPorId"
    /\ llamada.ret # null
    /\ Len(items) > 1
    /\ items = antes.items
    /\ cantidad_dinero_en_cuenta = antes.dinero

\* C11: eliminarPorId(id), when some item has the id, removes exactly the first such
\* item, returns true and keeps every other item (later items with the same id
\* included) in its order; when no item has the id it returns false and leaves
\* items unchanged. The balance is unchanged in both cases.
C11_EliminarPrimero ==
    LET its == antes.items
        hay == \E i \in 1..Len(its) : its[i].id = llamada.id
    IN  llamada.op = "eliminarPorId"
        => /\ cantidad_dinero_en_cuenta = antes.dinero
           /\ llamada.ret = hay
           /\ ~hay => items = its
           /\ hay => \E p \in 1..Len(its) :
                        /\ its[p].id = llamada.id
                        /\ \A j \in 1..(p - 1) : its[j].id # llamada.id
                        /\ Len(items) = Len(its) - 1
                        /\ \A j \in 1..(p - 1) : items[j] = its[j]
                        /\ \A j \in p..Len(items) : items[j] = its[j + 1]

C11_Testigo ==
    /\ llamada.op = "eliminarPorId"
    /\ llamada.ret = TRUE
    /\ Len(antes.items) = 2
    /\ antes.items[1].id = llamada.id
    /\ antes.items[2].id = llamada.id
    /\ antes.items[1] # antes.items[2]
    /\ items = <<antes.items[2]>>

\* C17: a vender(id, cantidad) that finds an item whose stock is 0 is an error
\* ("Producto agotado") for every cantidad, 0 included: the sale is not reported as
\* successful, modificarStockItem does not return true for it, and stock and
\* balance are unchanged.
C17_ProductoAgotado ==
    LET it == PrimeroConId(antes.items, llamada.id)
    IN  (/\ llamada.op = "vender"
         /\ it # 0
         /\ antes.items[it].stock = 0)
        => /\ ~llamada.venta
           /\ ~llamada.acredita
           /\ llamada.consola # <<>>
           /\ items = antes.items
           /\ cantidad_dinero_en_cuenta = antes.dinero

\* Whether the item has a numeric stock field.
TieneStock(it) == "stock" \in DOMAIN it

\* C12: Proveedor.comprar(id_producto, cantidad) for a registered id (whose item, if
\* it carries a numeric stock, has stock >= cantidad) returns the record with
\* precio_final = item.precio * cantidad, item_comprado = the first registered item
\* with that id and cantidad = the quantity asked; a numeric stock, if present, is
\* lowered by cantidad.
C12_ProvCompraExitosa ==
    LET its == antes.prov_items
        it == PrimeroConId(its, llamada.id)
    IN  (/\ llamada.op = "Proveedor.comprar"
         /\ it # 0
         /\ TieneStock(its[it]) => its[it].stock >= llamada.cantidad)
        => /\ llamada.ret = [es_null |-> FALSE,
                             precio_final |-> its[it].precio * llamada.cantidad,
                             item_comprado |-> it,
                             cantidad |-> llamada.cantidad]
           /\ Len(prov_items) = Len(its)
           /\ \A j \in 1..Len(its) : j # it => prov_items[j] = its[j]
           /\ TieneStock(its[it])
                => prov_items[it] = [its[it] EXCEPT !.stock = its[it].stock - llamada.cantidad]
           /\ ~TieneStock(its[it]) => prov_items[it] = its[it]

C12_Testigo ==
    /\ llamada.op = "Proveedor.comprar"
    /\ llamada.ret # ret_null
    /\ llamada.cantidad = 2
    /\ llamada.ret.item_comprado = 2
    /\ llamada.ret.precio_final = 2 * antes.prov_items[2].precio
    /\ \E j \in 3..Len(antes.prov_items) :
          /\ antes.prov_items[j].id = llamada.id
          /\ antes.prov_items[j].precio # antes.prov_items[2].precio

\* C13: Proveedor.comprar returns null and leaves the supplier's items unchanged
\* when no registered item has the id, or the item found has a numeric stock
\* smaller than cantidad.
C13_ProvCompraFallida ==
    LET its == antes.prov_items
        it == PrimeroConId(its, llamada.id)
    IN  (/\ llamada.op = "Proveedor.comprar"
         /\ \/ it = 0
            \/ (TieneStock(its[it]) /\ its[it].stock < llamada.cantidad))
        => /\ llamada.ret = ret_null
           /\ prov_items = its

C13_Testigo ==
    /\ llamada.op = "Proveedor.comprar"
    /\ PrimeroConId(antes.prov_items, llamada.id) # 0
    /\ TieneStock(antes.prov_items[PrimeroConId(antes.prov_items, llamada.id)])
    /\ antes.prov_items[PrimeroConId(antes.prov_items, llamada.id)].stock = 1
    /\ llamada.cantidad = 2
    /\ llamada.consola = <<"Stock insuficiente">>

\* C14: every Proveedor.registrarItem call appends exactly one ItemProveedor with the
\* nombre, precio, id, descripcion and id_proveedor given, also when the id is
\* already registered, and leaves the items registered before unchanged.
C14_RegistrarSiempreAgrega ==
    llamada.op = "Proveedor.registrarItem"
    => /\ Len(prov_items) = Len(antes.prov_items) + 1
       /\ \A j \in 1..Len(antes.prov_items) : prov_items[j] = antes.prov_items[j]
       /\ prov_items[Len(prov_items)] =
            [nombre |-> llamada.args.nombre, precio |-> llamada.args.precio,
             id |-> llamada.args.id, descripcion |-> llamada.args.descripcion,
             id_proveedor |-> llamada.args.id_proveedor]

C14_Testigo ==
    /\ llamada.op = "Proveedor.registrarItem"
    /\ \E j \in 1..Len(antes.prov_items) : antes.prov_items[j].id = llamada.args.id
    /\ Len(prov_items) = Len(antes.prov_items) + 1

\* No two items of the list have the same id.
IdsUnicos(its) ==
    \A i, j \in 1..Len(its) : its[i].id = its[j].id => i = j

\* The Proveedor list was built from the empty list by registrarItem alone.
SoloRegistrados(its) == \A i \in 1..Len(its) : ~TieneStock(its[i])

C15_CopiaPorValor ==
    /\ \A x \in RefsCatalogo : x \in DOMAIN memoria.heap /\ memoria.heap[x] = HeapInicial[x]
    /\ prov_items = deref(HeapInicial, <<2>>)
    /\ \A i \in 1..Len(memoria.tienda) : memoria.tienda[i] \notin RefsCatalogo

C15_Testigo ==
    /\ llamada.op = "modificarStockItem"
    /\ llamada.ret = TRUE
    /\ llamada.cantidad > 0
    /\ llamada.ref \notin RefsCatalogo
    /\ items[llamada.item].nombre = item.nombre
    /\ items[llamada.item] = memoria.heap[llamada.ref]

\* C18: for every row of KPIs, NULLs included, puntuacion_salud_negocio is an
\* integer from 0 to 100 and is the sum of the four components, each of which
\* is at most 25.
C18_PuntuacionSalud ==
    fila.paso = "sistema_alertas" =>
        /\ fila.puntuacion_salud_negocio \in 0..100
        /\ \A i \in 1..4 : fila.componentes[i] \in 0..25
        /\ fila.puntuacion_salud_negocio = fila.componentes[1] + fila.componentes[2]
                                           + fila.componentes[3] + fila.componentes[4]

C18_Testigo ==
    /\ fila.paso = "sistema_alertas"
    /\ fila.kpis.crecimiento_anual_ingresos = NULL
    /\ fila.kpis.productos_activos = NULL
    /\ fila.kpis.tasa_retencion_clientes = 750
    /\ fila.kpis.tasa_nuevos_clientes = 110
    /\ fila.puntuacion_salud_negocio = 75

C20_FallaCuandoMayor ==
    peticion.ruta # "ninguna" =>
        /\ (peticion.next = 1) # (peticion.middleware_status = 500)
        /\ (peticion.status = 500) <=> (peticion.random > peticion.probabilidad)

\* C21: every UPDATE on empleados that changes salario adds to historial_salarios
\* exactly one row, with the employee's id, the old salary and the new salary;
\* an UPDATE that leaves salario as it was (or that fails) adds none; and no row
\* of historial_salarios has salario_anterior = salario_nuevo.
C21_HistorialSalarios ==
    /\ \A k \in 1..Len(tablas.historial_salarios) :
          tablas.historial_salarios[k].salario_anterior
            # tablas.historial_salarios[k].salario_nuevo
    /\ llamada.op = "UPDATE empleados" =>
          LET t == llamada.tablas_antes
              i == find(t.empleados, llamada.id, 1)
              cambia == /\ i # null
                        /\ tablas.empleados[i].salario # t.empleados[i].salario
          IN  /\ cambia => tablas.historial_salarios =
                              Append(t.historial_salarios,
                                     [empleado_id |-> llamada.id,
                                      salario_anterior |-> t.empleados[i].salario,
                                      salario_nuevo |-> tablas.empleados[i].salario])
              /\ ~cambia => tablas.historial_salarios = t.historial_salarios
              /\ llamada.error => /\ llamada.columna = "salario"
                                   /\ (llamada.valor = NULL \/ llamada.valor <= 0)

C21_Testigo ==
    /\ llamada.op = "UPDATE empleados"
    /\ llamada.columna = "salario"
    /\ llamada.filas = 1
    /\ Len(tablas.historial_salarios) = 2
    /\ tablas.historial_salarios[1].empleado_id = 2
    /\ tablas.historial_salarios[2] =
         [empleado_id |-> 2, salario_anterior |-> 1000, salario_nuevo |-> 1500]

\* C22: from a balance >= 0, a call of comprar, vender, modificarStockItem or
\* eliminarPorId with a quantity >= 0 (prices and margins are >= 0 throughout)
\* leaves a balance >= 0.
C22_DineroNoNegativo ==
    (/\ llamada.op \in {"comprar", "vender", "modificarStockItem", "eliminarPorId"}
     /\ antes.dinero # NaN
     /\ antes.dinero >= 0
     /\ llamada.op # "eliminarPorId" => llamada.cantidad >= 0)
    => (cantidad_dinero_en_cuenta # NaN /\ cantidad_dinero_en_cuenta >= 0)

\* C23: after a successful comprar(nuevo_item, cantidad, margen),
\* buscarItemPorId(nuevo_item.id) is not null, and when no item had that id before
\* the purchase it is the appended item, whose stock is cantidad.
C23_CompradoSeEncuentra ==
    (llamada.op = "comprar" /\ Len(items) = Len(antes.items) + 1) =>
        LET encontrado == buscarItemPorId(items, llamada.nuevo_item.id)
        IN  /\ encontrado # null
            /\ buscarItemPorId(antes.items, llamada.nuevo_item.id) = null
                 => (encontrado = Len(items) /\ items[encontrado].stock = llamada.cantidad)

\* C24, for the quantities from zero up: vender raises no stock and leaves a
\* balance at least as high as before, and modificarStockItem raises no stock.
C24_VentaMonotona ==
    (/\ llamada.op \in {"vender", "modificarStockItem"}
     /\ llamada.cantidad >= 0
     /\ antes.dinero # NaN)
    => /\ Len(items) = Len(antes.items)
       /\ \A i \in 1..Len(items) : items[i].stock <= antes.items[i].stock
       /\ JsLe(antes.dinero, cantidad_dinero_en_cuenta)

\* C25: vender looks at and changes only the first item that has the id: every
\* other item stays as it was, and when the stock of the first one is below
\* cantidad nothing changes, whatever stock a later item with the id holds.
C25_VentaConIdsRepetidos ==
    llamada.op = "vender" =>
        LET primero == find(antes.items, llamada.id, 1)
        IN  /\ Len(items) = Len(antes.items)
            /\ \A j \in 1..Len(items) : j # primero => items[j] = antes.items[j]
            /\ (primero # null /\ antes.items[primero].stock < llamada.cantidad)
                 => (/\ items = antes.items
                     /\ cantidad_dinero_en_cuenta = antes.dinero
                     /\ ~llamada.venta)

C25_Testigo ==
    /\ llamada.op = "vender"
    /\ Len(antes.items) = 2
    /\ antes.items[1].id = llamada.id
    /\ antes.items[2].id = llamada.id
    /\ antes.items[1].stock < llamada.cantidad
    /\ antes.items[2].stock >= llamada.cantidad
    /\ items = antes.items

\* The items without their stock, in order.
SinStock(its) == [i \in 1..Len(its) |-> [its[i] EXCEPT !.stock = 0]]

\* C26: items gets longer only by a successful comprar (by one, at the end) and
\* shorter only by a successful eliminarPorId (by one, the rest in order);
\* vender, modificarStockItem and buscarItemPorId add, remove and reorder
\* nothing; the balance changes only in a successful comprar or vender.
C26_Marco ==
    /\ llamada.op = "comprar" =>
          \/ items = antes.items /\ cantidad_dinero_en_cuenta = antes.dinero
          \/ /\ Len(items) = Len(antes.items) + 1
             /\ SubSeq(items, 1, Len(antes.items)) = antes.items
    /\ llamada.op = "eliminarPorId" =>
          /\ cantidad_dinero_en_cuenta = antes.dinero
          /\ ~llamada.ret => items = antes.items
          /\ llamada.ret =>
                \E k \in 1..Len(antes.items) :
                    items = SubSeq(antes.items, 1, k - 1)
                              \o SubSeq(antes.items, k + 1, Len(antes.items))
    /\ llamada.op \in {"vender", "modificarStockItem", "buscarItemPorId"} =>
          SinStock(items) = SinStock(antes.items)
    /\ llamada.op \in {"modificarStockItem", "buscarItemPorId"} =>
          cantidad_dinero_en_cuenta = antes.dinero
    /\ (llamada.op = "vender" /\ ~llamada.venta) =>
          cantidad_dinero_en_cuenta = antes.dinero

C26_Testigo ==
    /\ llamada.op = "comprar"
    /\ Len(antes.items) = 1
    /\ Len(items) = 2
    /\ items[1] # items[2]
    /\ cantidad_dinero_en_cuenta # antes.dinero

\* C27: on every item held and every integer cantidad, the modificarStockItem
\* of the Tienda class returns what the one of item.ts returns and leaves the
\* same stock.
C27_VariantesEquivalentes ==
    llamada.op = "modificarStockItem" =>
        LET clase == Tienda_modificarStockItem(antes.items, llamada.item, llamada.cantidad)
        IN  /\ clase.ret = llamada.ret
            /\ clase.items = items

C27_Testigo ==
    /\ llamada.op = "modificarStockItem"
    /\ llamada.cantidad = antes.items[llamada.item].stock
    /\ llamada.cantidad > 0
    /\ llamada.ret = TRUE
    /\ items[llamada.item].stock = 0

\* C28: on a Proveedor whose items all come from registrarItem (none has a
\* stock), Proveedor.comprar leaves the items as they were, returns a result for
\* every id that is registered whatever the cantidad, and a second call with the
\* same arguments returns the same.
C28_ProvCompraPura ==
    (llamada.op = "Proveedor.comprar" /\ SoloRegistrados(antes.prov_items)) =>
        /\ prov_items = antes.prov_items
        /\ find(antes.prov_items, llamada.id, 1) # null => ~llamada.ret.es_null
        /\ prov_comprar(prov_items, llamada.id, llamada.cantidad).ret = llamada.ret

C28_Testigo ==
    /\ llamada.op = "Proveedor.comprar"
    /\ Len(antes.prov_items) = 2
    /\ SoloRegistrados(antes.prov_items)
    /\ llamada.cantidad = MaxCantidad
    /\ ~llamada.ret.es_null
    /\ llamada.ret.item_comprado = 2

ArranqueSeguro ==
    arranque.fase # "sin iniciar" =>
        /\ arranque.promesa_connect # "rechazada"
        /\ arranque.promesa_crear # "rechazada"
        /\ arranque.rechazos_sin_manejar = 0
        /\ arranque.llamadas_crearUsuario \in {0, 1}
        /\ arranque.llamadas_crearUsuario = 1 =>
              /\ arranque.conexion_al_llamar \in Resultados
              /\ arranque.promesa_connect = "cumplida"
        /\ arranque.fase = "terminado" => arranque.llamadas_crearUsuario = 1

\* C29: connectToMongoDB never rejects, so crearUsuario is called exactly once,
\* only after the connection attempt has settled, whether it succeeded or
\* failed; and a failure of User.create is caught, leaving no unhandled
\* rejection.
C29_OrdenDeArranque ==
    /\ []ArranqueSeguro
    /\ <>(arranque.fase = "terminado" /\ arranque.llamadas_crearUsuario = 1)

C29_Testigo ==
    /\ arranque.fase = "terminado"
    /\ arranque.conexion.estado = "error"
    /\ arranque.create.estado = "error"
    /\ arranque.llamadas_crearUsuario = 1
    /\ Len(arranque.consola) = 2

====
